---- MODULE Spec2Model ----
(***************************************************************************)
(* One run of the hitlist command (src/hitlist.go): doMain reads the       *)
(* client secret, obtains an OAuth client through the token cache          *)
(* (getClient), reads a range of a spreadsheet, formats the returned grid  *)
(* into a status of at most maxTweetSize bytes and posts it.               *)
(*                                                                         *)
(* Strings whose length matters (cells, the status) are sequences of       *)
(* one-character strings, one element per byte.  Outcomes of the           *)
(* environment (file system, standard input, network) are nondeterministic.*)
(***************************************************************************)
EXTENDS Integers, Sequences, FiniteSets, TLC

\* ---------------------------------------------------------------- bounds
\* Rows and columns of the grids a run reads.
MaxRows == 1
MaxCols == 1
\* Rows and columns of the grids the formatting is checked on.
FormatMaxRows == 2
FormatMaxCols == 2
\* Length of the long cell.
LongLen == 150

\* ------------------------------------------------------ program constants
maxTweetSize == 280

VARIABLES pc, result, calls, cacheFile, initCache, tok, client,
          grid, status, tc, consumer, api

vars == <<pc, result, calls, cacheFile, initCache, tok, client,
          grid, status, tc, consumer, api>>

\* ------------------------------------------------------------ OAuth token
\* The exported fields of oauth2.Token, the ones encoding/json sees.
None == [none |-> TRUE]

\* The zero time.Time, as encoding/json writes it.
ZeroTime == "0001-01-01T00:00:00Z"

Tokens == [AccessToken : {"", "a1"}, TokenType : {"", "Bearer"},
           RefreshToken : {"", "r1"}, Expiry : {ZeroTime, "t1"}]

\* Tokens the provider's token endpoint may hand out.
ExchangeTokens == {t \in Tokens : t.AccessToken # "" /\ t.Expiry # ZeroTime}

\* json.NewEncoder(f).Encode(token): access_token is always written,
\* token_type and refresh_token carry omitempty, expiry is a struct
\* (time.Time) on which omitempty has no effect.
Encode(t) ==
    [kind |-> "json",
     fields |-> {<<"access_token", t.AccessToken>>, <<"expiry", t.Expiry>>}
                \cup (IF t.TokenType # "" THEN {<<"token_type", t.TokenType>>} ELSE {})
                \cup (IF t.RefreshToken # "" THEN {<<"refresh_token", t.RefreshToken>>} ELSE {})]

Lookup(fields, key, zero) ==
    IF \E f \in fields : f[1] = key
    THEN (CHOOSE f \in fields : f[1] = key)[2]
    ELSE zero

\* json.NewDecoder(f).Decode(t) into a zero Token: absent keys keep the
\* zero value.
Decode(file) ==
    [AccessToken  |-> Lookup(file.fields, "access_token", ""),
     TokenType    |-> Lookup(file.fields, "token_type", ""),
     RefreshToken |-> Lookup(file.fields, "refresh_token", ""),
     Expiry       |-> Lookup(file.fields, "expiry", ZeroTime)]

Missing == [kind |-> "missing"]
Empty   == [kind |-> "empty"]
Garbage == [kind |-> "garbage"]
EmptyObject == [kind |-> "json", fields |-> {}]

\* Contents the cache file can have when the run starts.
CachedTokens == {t \in Tokens : t.TokenType = "Bearer" /\ t.AccessToken = "a1"}
CacheFiles == {Missing, Empty, Garbage, EmptyObject} \cup {Encode(t) : t \in CachedTokens}

Decodes(file) == file.kind = "json"

\* ------------------------------------------------------------- cell grids
Long == [i \in 1..LongLen |-> "x"]
Cells == {<<"a">>, Long}

SeqsUpTo(S, n) == UNION {[1..k -> S] : k \in 0..n}

GridsUpTo(rows, cols) == SeqsUpTo(SeqsUpTo(Cells, cols), rows)

\* resp.Values as a run may read it.
Grids == GridsUpTo(MaxRows, MaxCols)

\* The data tweet may be handed.
FormatGrids == GridsUpTo(FormatMaxRows, FormatMaxCols)

\* ------------------------------------------------------------ call history
Ev(op, err) == [op |-> op, err |-> err]

Called(op)    == \E i \in DOMAIN calls : calls[i].op = op
Failed(op)    == \E i \in DOMAIN calls : calls[i].op = op /\ calls[i].err
Succeeded(op) == \E i \in DOMAIN calls : calls[i].op = op /\ ~calls[i].err
Count(op)     == Cardinality({i \in DOMAIN calls : calls[i].op = op})

\* --------------------------------------------------------------- twitter
TwitterConfigs == [consumerKey : {"ck"}, consumerSecret : {"", "cs"},
                   accessToken : {"at"}, accessSecret : {"as"}]

\* anaconda.SetConsumerKey: sets the Token of the package-level consumer
\* credentials and leaves its Secret alone.
SetConsumerKey(c, key) == [c EXCEPT !.Token = key]

\* anaconda.NewTwitterApi(accessToken, accessSecret)
NewTwitterApi(accessToken, accessSecret) ==
    [Token |-> accessToken, Secret |-> accessSecret]

Init ==
    /\ pc = "ReadFile"
    /\ result = "none"
    /\ calls = <<>>
    /\ cacheFile \in CacheFiles
    /\ initCache = cacheFile
    /\ tok = None
    /\ client = None
    /\ grid = <<>>
    /\ status = <<>>
    /\ tc \in TwitterConfigs
    /\ consumer = [Token |-> "", Secret |-> ""]
    /\ api = None

\* doMain returns err.
Return(err) == pc' = "done" /\ result' = err

\* Variant of doMain_ReadFile that drops the error of ioutil.ReadFile.
doMain_ReadFile_IgnoreErr ==
    /\ pc = "ReadFile"
    /\ \E err \in BOOLEAN :
         /\ calls' = Append(calls, Ev("ReadFile", err))
         /\ pc' = "ConfigFromJSON" /\ UNCHANGED result
    /\ UNCHANGED <<cacheFile, initCache, tok, client, grid, status, tc, consumer, api>>

\* doMain: ioutil.ReadFile(sc.secretPath)
doMain_ReadFile ==
    /\ pc = "ReadFile"
    /\ \E err \in BOOLEAN :
         /\ calls' = Append(calls, Ev("ReadFile", err))
         /\ IF err THEN Return("failed to read client secret file")
                   ELSE pc' = "ConfigFromJSON" /\ UNCHANGED result
    /\ UNCHANGED <<cacheFile, initCache, tok, client, grid, status, tc, consumer, api>>

\* doMain: google.ConfigFromJSON(secretContent, permScope)
doMain_ConfigFromJSON ==
    /\ pc = "ConfigFromJSON"
    /\ \E err \in BOOLEAN :
         /\ calls' = Append(calls, Ev("ConfigFromJSON", err))
         /\ IF err THEN Return("failed to create config from secret file")
                   ELSE pc' = "createCacheFile" /\ UNCHANGED result
    /\ UNCHANGED <<cacheFile, initCache, tok, client, grid, status, tc, consumer, api>>

\* getClient: createCacheFile() computes the path of the cache file and
\* makes its directory; it touches no file.  On error getClient returns
\* and doMain wraps the error.
createCacheFile ==
    /\ pc = "createCacheFile"
    /\ \E err \in BOOLEAN :
         /\ calls' = Append(calls, Ev("createCacheFile", err))
         /\ IF err THEN Return("failed to get client for Sheets")
                   ELSE pc' = "tokenFromFile" /\ UNCHANGED result
    /\ UNCHANGED <<cacheFile, initCache, tok, client, grid, status, tc, consumer, api>>

\* Variant of tokenFromFile whose caller asks for a fresh token even when
\* the cached one decoded.
tokenFromFile_AlwaysWeb ==
    /\ pc = "tokenFromFile"
    /\ calls' = Append(calls, Ev("tokenFromFile", ~Decodes(cacheFile)))
    /\ tok' = (IF Decodes(cacheFile) THEN Decode(cacheFile) ELSE None)
    /\ pc' = "getTokenFromWeb"
    /\ UNCHANGED <<result, cacheFile, initCache, client, grid, status, tc, consumer, api>>

\* getClient: tok, err := tokenFromFile(cacheFile); err != nil sends the
\* run to getTokenFromWeb.  os.Open fails on a missing file, Decode fails
\* on an empty or malformed one.
tokenFromFile ==
    /\ pc = "tokenFromFile"
    /\ calls' = Append(calls, Ev("tokenFromFile", ~Decodes(cacheFile)))
    /\ IF Decodes(cacheFile)
       THEN tok' = Decode(cacheFile) /\ pc' = "Client"
       ELSE tok' = None /\ pc' = "getTokenFromWeb"
    /\ UNCHANGED <<result, cacheFile, initCache, client, grid, status, tc, consumer, api>>

\* Variant of getTokenFromWeb whose caller goes on to saveToken after a
\* failed exchange.
getTokenFromWeb_SaveOnErr ==
    /\ pc = "getTokenFromWeb"
    /\ \/ /\ calls' = calls \o <<Ev("Printf authURL", FALSE), Ev("Scan", FALSE),
                                 Ev("Exchange", TRUE), Ev("getTokenFromWeb", TRUE)>>
          /\ tok' = [AccessToken |-> "", TokenType |-> "", RefreshToken |-> "",
                     Expiry |-> ZeroTime]
       \/ \E t \in ExchangeTokens :
            /\ calls' = calls \o <<Ev("Printf authURL", FALSE), Ev("Scan", FALSE),
                                   Ev("Exchange", FALSE), Ev("getTokenFromWeb", FALSE)>>
            /\ tok' = t
    /\ pc' = "saveToken"
    /\ UNCHANGED <<result, cacheFile, initCache, client, grid, status, tc, consumer, api>>

\* getTokenFromWeb: print the authorization URL, fmt.Scan the code,
\* config.Exchange it.  On error getClient returns and doMain wraps it.
getTokenFromWeb ==
    /\ pc = "getTokenFromWeb"
    /\ \/ /\ calls' = calls \o <<Ev("Printf authURL", FALSE), Ev("Scan", TRUE),
                                 Ev("getTokenFromWeb", TRUE)>>
          /\ Return("failed to get client for Sheets")
          /\ UNCHANGED tok
       \/ /\ calls' = calls \o <<Ev("Printf authURL", FALSE), Ev("Scan", FALSE),
                                 Ev("Exchange", TRUE), Ev("getTokenFromWeb", TRUE)>>
          /\ Return("failed to get client for Sheets")
          /\ UNCHANGED tok
       \/ \E t \in ExchangeTokens :
            /\ calls' = calls \o <<Ev("Printf authURL", FALSE), Ev("Scan", FALSE),
                                   Ev("Exchange", FALSE), Ev("getTokenFromWeb", FALSE)>>
            /\ tok' = t
            /\ pc' = "saveToken"
            /\ UNCHANGED result
    /\ UNCHANGED <<cacheFile, initCache, client, grid, status, tc, consumer, api>>

\* Variant of saveToken that reports success without writing the file.
saveToken_NoWrite ==
    /\ pc = "saveToken"
    /\ calls' = Append(calls, Ev("saveToken", FALSE))
    /\ pc' = "Client"
    /\ UNCHANGED <<result, cacheFile, initCache, tok, client, grid, status, tc, consumer, api>>

\* getClient: saveToken(cacheFile, tok); the returned error is dropped.
\* os.OpenFile may fail (file untouched); with O_TRUNC the file is emptied
\* on open, so a failing Encode leaves it empty or partly written.
saveToken ==
    /\ pc = "saveToken"
    /\ \/ /\ calls' = Append(calls, Ev("saveToken", TRUE))
          /\ UNCHANGED cacheFile
       \/ /\ calls' = Append(calls, Ev("saveToken", TRUE))
          /\ cacheFile' \in {Empty, Garbage}
       \/ /\ calls' = Append(calls, Ev("saveToken", FALSE))
          /\ cacheFile' = Encode(tok)
    /\ pc' = "Client"
    /\ UNCHANGED <<result, initCache, tok, client, grid, status, tc, consumer, api>>

\* getClient: return config.Client(ctx, tok), nil
getClient_Client ==
    /\ pc = "Client"
    /\ calls' = Append(calls, Ev("config.Client", FALSE))
    /\ client' = [token |-> tok]
    /\ pc' = "sheetsNew"
    /\ UNCHANGED <<result, cacheFile, initCache, tok, grid, status, tc, consumer, api>>

\* Variant of doMain_sheetsNew that drops the error of sheets.New.
doMain_sheetsNew_IgnoreErr ==
    /\ pc = "sheetsNew"
    /\ \E err \in BOOLEAN :
         /\ calls' = Append(calls, Ev("sheets.New", err))
         /\ pc' = "ValuesGet" /\ UNCHANGED result
    /\ UNCHANGED <<cacheFile, initCache, tok, client, grid, status, tc, consumer, api>>

\* doMain: sheets.New(client)
doMain_sheetsNew ==
    /\ pc = "sheetsNew"
    /\ \E err \in BOOLEAN :
         /\ calls' = Append(calls, Ev("sheets.New", err))
         /\ IF err THEN Return("failed to retrieve client for Sheets")
                   ELSE pc' = "ValuesGet" /\ UNCHANGED result
    /\ UNCHANGED <<cacheFile, initCache, tok, client, grid, status, tc, consumer, api>>

\* doMain: srv.Spreadsheets.Values.Get(sc.id, r).Do()
doMain_ValuesGet ==
    /\ pc = "ValuesGet"
    /\ \/ /\ calls' = Append(calls, Ev("Values.Get", TRUE))
          /\ Return("failed to read sheet")
          /\ UNCHANGED grid
       \/ \E g \in Grids :
            /\ calls' = Append(calls, Ev("Values.Get", FALSE))
            /\ grid' = g
            /\ pc' = "checkValues"
            /\ UNCHANGED result
    /\ UNCHANGED <<cacheFile, initCache, tok, client, status, tc, consumer, api>>

\* Variant of doMain_checkValues that tests len(resp.Values) < 0.
doMain_checkValues_LessThanZero ==
    /\ pc = "checkValues"
    /\ calls' = Append(calls, Ev("len(resp.Values)", Len(grid) < 0))
    /\ IF Len(grid) < 0 THEN Return("no data found from spreadsheet")
                        ELSE pc' = "SetConsumerKey" /\ UNCHANGED result
    /\ UNCHANGED <<cacheFile, initCache, tok, client, grid, status, tc, consumer, api>>

\* doMain: if len(resp.Values) < 1 { return errors.New(...) }
doMain_checkValues ==
    /\ pc = "checkValues"
    /\ calls' = Append(calls, Ev("len(resp.Values)", Len(grid) < 1))
    /\ IF Len(grid) < 1 THEN Return("no data found from spreadsheet")
                        ELSE pc' = "SetConsumerKey" /\ UNCHANGED result
    /\ UNCHANGED <<cacheFile, initCache, tok, client, grid, status, tc, consumer, api>>

\* doMain: anaconda.SetConsumerKey(tc.consumerKey);
\*         anaconda.SetConsumerKey(tc.consumerSecret);
\*         api := anaconda.NewTwitterApi(tc.accessToken, tc.accessSecret)
doMain_NewTwitterApi ==
    /\ pc = "SetConsumerKey"
    /\ calls' = calls \o <<Ev("SetConsumerKey", FALSE), Ev("SetConsumerKey", FALSE),
                           Ev("NewTwitterApi", FALSE)>>
    /\ consumer' = SetConsumerKey(SetConsumerKey(consumer, tc.consumerKey), tc.consumerSecret)
    /\ api' = NewTwitterApi(tc.accessToken, tc.accessSecret)
    /\ pc' = "tweet"
    /\ UNCHANGED <<result, cacheFile, initCache, tok, client, grid, status, tc>>

\* ------------------------------------------------------------- formatting
RECURSIVE Join(_)
\* The elements of a sequence of strings, separated by one space.
Join(ss) ==
    IF Len(ss) = 0 THEN <<>>
    ELSE IF Len(ss) = 1 THEN ss[1]
    ELSE ss[1] \o <<" ">> \o Join(Tail(ss))

\* fmt's %v of a slice: the elements in brackets, separated by spaces.
FormatRow(row) == <<"[">> \o Join(row) \o <<"]">>
FormatV(data)  == <<"[">> \o Join([i \in DOMAIN data |-> FormatRow(data[i])]) \o <<"]">>

Label == <<"s","o","m","e"," ","c","o","o","l"," ","d","a","t","a",":"," ">>

\* fmt.Sprintf("some cool data: %v", data)
Sprintf(data) == Label \o FormatV(data)

\* Variant of Truncate that cuts one byte late.
Truncate_OffByOne(s) ==
    IF Len(s) > maxTweetSize THEN SubSeq(s, 1, maxTweetSize + 1) ELSE s

\* if len(status) > maxTweetSize { status = status[:maxTweetSize] }
Truncate(s) == IF Len(s) > maxTweetSize THEN SubSeq(s, 1, maxTweetSize) ELSE s

\* Variant of tweet that drops the error of api.PostTweet.
tweet_IgnoreErr ==
    /\ pc = "tweet"
    /\ status' = Truncate(Sprintf(grid))
    /\ \E err \in BOOLEAN :
         /\ calls' = Append(calls, Ev("PostTweet", err))
         /\ pc' = "markComplete" /\ UNCHANGED result
    /\ UNCHANGED <<cacheFile, initCache, tok, client, grid, tc, consumer, api>>

\* tweet(api, resp.Values) and doMain's wrapping of its error.
tweet ==
    /\ pc = "tweet"
    /\ status' = Truncate(Sprintf(grid))
    /\ \E err \in BOOLEAN :
         /\ calls' = Append(calls, Ev("PostTweet", err))
         /\ IF err THEN Return("failed to tweet")
                   ELSE pc' = "markComplete" /\ UNCHANGED result
    /\ UNCHANGED <<cacheFile, initCache, tok, client, grid, tc, consumer, api>>

\* markComplete() returns nil; doMain then returns nil.
markComplete ==
    /\ pc = "markComplete"
    /\ calls' = Append(calls, Ev("markComplete", FALSE))
    /\ Return("nil")
    /\ UNCHANGED <<cacheFile, initCache, tok, client, grid, status, tc, consumer, api>>

Next ==
    \/ doMain_ReadFile
    \/ doMain_ConfigFromJSON
    \/ createCacheFile
    \/ tokenFromFile
    \/ getTokenFromWeb
    \/ saveToken
    \/ getClient_Client
    \/ doMain_sheetsNew
    \/ doMain_ValuesGet
    \/ doMain_checkValues
    \/ doMain_NewTwitterApi
    \/ tweet
    \/ markComplete

Spec == Init /\ [][Next]_vars

\* tweet on its own: the call tweet(api, data) of doMain for any data, the
\* publisher set up as doMain sets it up, followed by the rest of doMain.
FormatInit ==
    /\ pc = "tweet"
    /\ result = "none"
    /\ calls = <<>>
    /\ cacheFile \in {Missing}
    /\ initCache = cacheFile
    /\ tok = None
    /\ client = None
    /\ grid \in FormatGrids
    /\ status = <<>>
    /\ tc \in TwitterConfigs
    /\ consumer = SetConsumerKey(SetConsumerKey([Token |-> "", Secret |-> ""],
                                                tc.consumerKey), tc.consumerSecret)
    /\ api = NewTwitterApi(tc.accessToken, tc.accessSecret)

FormatNext == tweet \/ markComplete

FormatSpec == FormatInit /\ [][FormatNext]_vars


\* ------------------------------------------------------------- properties
\* getClient has returned, to doMain, a client or an error.
GetClientReturned ==
    /\ Called("createCacheFile")
    /\ pc \notin {"createCacheFile", "tokenFromFile", "getTokenFromWeb", "saveToken", "Client"}

Min(a, b) == IF a < b THEN a ELSE b

\* C1: whenever tokenFromFile succeeds on the cache file, the interactive
\* flow is never entered in that run: no authorization URL is printed,
\* standard input is not read and no code exchange is made.
C1_NoPromptOnCachedToken ==
    Succeeded("tokenFromFile") =>
        /\ ~Called("getTokenFromWeb")
        /\ ~Called("Printf authURL")
        /\ ~Called("Scan")
        /\ ~Called("Exchange")

C1_Witness == pc = "done" /\ result = "nil" /\ Succeeded("tokenFromFile")

C3_EmptyGridFails ==
    (Succeeded("Values.Get") /\ Len(grid) = 0) =>
        /\ pc \in {"checkValues", "done"}
        /\ pc = "done" => result = "no data found from spreadsheet"
        /\ ~Called("PostTweet")
        /\ ~Called("markComplete")

C3_Witness == pc = "done" /\ Succeeded("Values.Get") /\ Len(grid) = 0

\* C4: the status handed to PostTweet is at most 280 long and is determined
\* by the grid: it is the rendering "some cool data: <grid>" when that is at
\* most 280 long, otherwise the first 280 bytes of it.
C4_StatusBounded ==
    Called("PostTweet") =>
      LET rendering == Sprintf(grid) IN
        /\ Len(status) <= 280
        /\ Len(status) = Min(Len(rendering), 280)
        /\ status = SubSeq(rendering, 1, Len(status))
        /\ grid = <<<< <<"a">>, <<"a">> >>, << <<"a">>, <<"a">> >>>> =>
              status = <<"s","o","m","e"," ","c","o","o","l"," ","d","a","t","a",":"," ",
                         "[","[","a"," ","a","]"," ","[","a"," ","a","]","]">>

C4_Witness == Called("PostTweet") /\ Len(Sprintf(grid)) > 280 /\ Len(status) = 280

\* C5: when the client secret file cannot be read, doMain fails with the
\* config-read error at once: no exchange, no spreadsheet read, no publish
\* call, and the token cache is neither read nor written.
C5_SecretUnreadable ==
    Failed("ReadFile") =>
        /\ pc = "done"
        /\ result = "failed to read client secret file"
        /\ ~Called("Exchange")
        /\ ~Called("Values.Get")
        /\ ~Called("PostTweet")
        /\ ~Called("tokenFromFile")
        /\ ~Called("saveToken")
        /\ cacheFile = initCache

C5_Witness == Failed("ReadFile") /\ initCache.kind = "json"

\* C6: when PostTweet returns an error, doMain returns "failed to tweet" and
\* markComplete is never invoked; markComplete is invoked only after a
\* PostTweet that succeeded.
C6_NoCompleteWithoutPublish ==
    /\ Failed("PostTweet") =>
          /\ pc = "done"
          /\ result = "failed to tweet"
          /\ ~Called("markComplete")
    /\ Called("markComplete") => Succeeded("PostTweet")

C6_Witness == Failed("PostTweet") /\ pc = "done"

\* C7 as stated: when the exchange succeeds but saveToken fails, the run
\* aborts: the spreadsheet is not read, nothing is published and doMain
\* does not return nil.
C7_SaveErrorAborts ==
    Failed("saveToken") =>
        /\ ~Called("Values.Get")
        /\ ~Called("PostTweet")
        /\ result # "nil"

\* C8 as stated: when PostTweet is called, the publisher holds the whole
\* credential set of the twitterConfig.
C8_PublisherCredentials ==
    Called("PostTweet") =>
        /\ consumer.Token = tc.consumerKey
        /\ consumer.Secret = tc.consumerSecret
        /\ api.Token = tc.accessToken
        /\ api.Secret = tc.accessSecret

\* The stage of the run a call belongs to.
Stage(op) ==
    CASE op \in {"ReadFile", "ConfigFromJSON"} -> 0
      [] op \in {"createCacheFile", "tokenFromFile", "Printf authURL", "Scan",
                 "Exchange", "getTokenFromWeb", "saveToken", "config.Client"} -> 1
      [] op \in {"sheets.New", "Values.Get", "len(resp.Values)"} -> 2
      [] op \in {"SetConsumerKey", "NewTwitterApi", "PostTweet"} -> 3
      [] op = "markComplete" -> 4

\* The calls whose error doMain receives.
DoMainSteps == {"ReadFile", "ConfigFromJSON", "createCacheFile", "getTokenFromWeb",
                "sheets.New", "Values.Get", "len(resp.Values)", "PostTweet",
                "markComplete"}

C10_CacheWrittenOnlyOnRefresh ==
    /\ Count("saveToken") <= 1
    /\ Called("saveToken") => (Failed("tokenFromFile") /\ Succeeded("Exchange"))
    /\ ~Called("saveToken") => cacheFile = initCache
    /\ Succeeded("tokenFromFile") => cacheFile = initCache
    /\ Failed("getTokenFromWeb") =>
          /\ cacheFile = initCache
          /\ pc = "done"
          /\ result = "failed to get client for Sheets"

C10_Witness == Failed("Exchange") /\ pc = "done" /\ initCache = Garbage
====
